---- MODULE Spec2Model ----
(***************************************************************************)
(* Lifecycle and synchronisation core of the <Document> component and the  *)
(* EventBus it owns.                                                       *)
(*                                                                         *)
(* The state machines of this module:                                      *)
(*   BusSpec    - the EventBus (on/off/_on/_off/dispatch), with listener   *)
(*                bodies that may call back into the bus;                  *)
(*   OffSpec    - a bus with two event names and its unsubscriptions;      *)
(*   Spec       - the Document component: renders with their effects, the  *)
(*                source normalisation and document load promises, and    *)
(*                the page / annotation-editor-layer registrations;        *)
(*   ParamsSpec - the Document with the dispatches on its bus;             *)
(*   UnitSpec   - the registries, findDocumentSource and the Viewer, each  *)
(*                by itself;                                               *)
(*   SaveSpec   - the download commands of a loaded document.              *)
(***************************************************************************)
EXTENDS Integers, Sequences, FiniteSets, TLC

(***************************************************************************)
(* Bounds                                                                  *)
(***************************************************************************)
\* total number of calls of on, _on, off, _off and dispatch explored, made by
\* the application or by listener bodies
MaxBusCalls == 5

\* number of changes of the file and options props explored after the mount
MaxChanges == 1
\* largest page count of a loaded document
MaxPages == 2
\* pages of the document whose registrations are exercised by themselves
MaxRegPages == 3
\* registrations made on that document
MaxRegs == 3
\* download commands issued
MaxSaves == 2
\* calls of _on and _off made on the bus whose unsubscriptions are followed
MaxOffCalls == 4

EventNames == {"a"}
Fns == {"f", "g"}

VARIABLES
  listeners,   \* EventBus.#listeners : eventName -> array of {listener, external, once}
  stack,       \* the dispatch calls in progress, innermost last
  subs,        \* history: every registration ever made, indexed by its id
  calls,       \* history: number of invocations of each registration
  nBusCalls,   \* history: number of calls of the bus made
  lastDone     \* history: the dispatch call that returned last

busVars == <<listeners, stack, subs, calls, nBusCalls, lastDone>>

VARIABLES
  mounted,      \* "no" before the first render, "yes", "gone" after the unmount
  file,         \* the file prop of the last render
  options,      \* the options prop of the last render
  prevFile,     \* prevFile.current
  sourceState,  \* state of useResolver<Source | null>(), dispatches applied
  pdfState,     \* state of useResolver<PDFDocumentProxy>(), dispatches applied
  annotationEditorUiManagerState,  \* state of the third useResolver
  canLoadAnnotationsState,         \* canLoadAnnotations as last set
  source,       \* sourceState as the last render read it
  pdf,          \* pdfState as the last render read it
  annotationEditorUiManager,       \* manager state as the last render read it
  canLoadAnnotations,              \* canLoadAnnotations as the last render read it
  cancellables, \* every makeCancellable(findDocumentSource()) made, in order
  loadingTasks, \* every pdfjs.getDocument() loading task made, in order
  curCancellable,  \* the cancellable the pending effect cleanup will cancel
  curLoadingTask,  \* the loading task the pending effect cleanup will destroy, or 0
  pages,        \* pages.current
  annotationEditorLayers,          \* annotationEditorLayers.current
  nPageChildren,   \* number of <Page> children the last render returned
  nChanges,     \* history: number of prop changes made
  hist          \* history: host callbacks and dispatches made

propVars == <<file, options, prevFile>>
stateVars == <<sourceState, pdfState, annotationEditorUiManagerState,
               canLoadAnnotationsState>>
renderVars == <<source, pdf, annotationEditorUiManager, canLoadAnnotations,
                nPageChildren>>
taskVars == <<cancellables, loadingTasks, curCancellable, curLoadingTask>>
registryVars == <<pages, annotationEditorLayers>>
docVars == <<mounted, propVars, stateVars, renderVars, taskVars, registryVars,
             nChanges, hist>>
\* one unit of the component exercised by itself: the two registries with the
\* readiness barrier, findDocumentSource, or the Viewer
VARIABLES
  unit,            \* "registry", "anyIndex", "source", "viewer", or "none"
  reg,             \* [pages, layers, ready, numPages]: the registries, the
                   \* readiness and the page count they were allocated for
  regs,            \* the registrations made so far, in their order
  srcIn,           \* the file findDocumentSource was called with
  srcOut,          \* what it returned or threw
  onItemClick,     \* the onItemClick prop of the last render is given
  viewer,          \* the Viewer: [onItemClick], as it was constructed
  click            \* what the last scrollPageIntoView did

unitVars == <<unit, reg, regs, srcIn, srcOut, onItemClick, viewer, click>>

\* the download commands of a loaded document
VARIABLES
  isSaveInProgressState,  \* the isSaveInProgress state
  installed,              \* isSaveInProgress as the installed command closed over it
  saveOps,                \* the download commands issued, each with its progress
  downloadFileName        \* the downloadFileName prop

saveVars == <<isSaveInProgressState, installed, saveOps, downloadFileName>>

\* the unsubscriptions of a bus, followed call by call
VARIABLES
  offCall      \* the last call of off / _off: its arguments and the listener
               \* table before and after it

offVars == <<offCall>>

notBus == <<docVars, unitVars, saveVars, offVars>>
\* what a render of the Document leaves alone: its effects call the bus
notRender == <<unitVars, saveVars, offVars>>
notDoc == <<busVars, unitVars, saveVars, offVars>>
vars == <<busVars, docVars, unitVars, saveVars, offVars>>

(***************************************************************************)
(* EventBus                                                                *)
(***************************************************************************)
RECURSIVE FirstIndexOf(_, _, _)
\* index of the first entry of list, from position i, whose function is
\* listener; 0 when there is none
FirstIndexOf(list, listener, i) ==
  IF i > Len(list) THEN 0
  ELSE IF list[i].listener = listener THEN i
  ELSE FirstIndexOf(list, listener, i + 1)

\* Array.prototype.splice(i, 1)
Splice1(list, i) == SubSeq(list, 1, i - 1) \o SubSeq(list, i + 1, Len(list))

\* _on puts the entry in the place of the list of the name (mutant)
_onReplaces(ls, eventName, listener, opts, id) ==
  LET entry == [id |-> id, listener |-> listener,
                external |-> (opts.external = TRUE),
                once |-> (opts.once = TRUE)]
  IN IF eventName \in DOMAIN ls
     THEN [ls EXCEPT ![eventName] = <<entry>>]
     ELSE ls @@ (eventName :> <<entry>>)

\* EventBus._on: the entry carries id, the position of the registration in
\* the history subs
_on(ls, eventName, listener, opts, id) ==
  LET entry == [id |-> id, listener |-> listener,
                external |-> (opts.external = TRUE),
                once |-> (opts.once = TRUE)]
  IN IF eventName \in DOMAIN ls
     THEN [ls EXCEPT ![eventName] = Append(@, entry)]
     ELSE ls @@ (eventName :> <<entry>>)

\* _off removes every entry of the function (mutant)
_offEvery(ls, eventName, listener) ==
  IF eventName \notin DOMAIN ls THEN ls
  ELSE [ls EXCEPT ![eventName] = SelectSeq(@, LAMBDA e : e.listener # listener)]

\* EventBus._off
_off(ls, eventName, listener) ==
  IF eventName \notin DOMAIN ls THEN ls
  ELSE LET i == FirstIndexOf(ls[eventName], listener, 1)
       IN IF i = 0 THEN ls
          ELSE [ls EXCEPT ![eventName] = Splice1(@, i)]

\* the array the for-of loop of dispatch walks (a live list in the mutant)
IterListLive(fr, ls) ==
  IF fr.eventName \in DOMAIN ls THEN ls[fr.eventName] ELSE <<>>

\* the array the for-of loop of dispatch walks: eventListeners.slice(0)
IterList(fr, ls) == fr.copy

\* an entry is never put aside (mutant)
DeferredNever(e) == FALSE

\* the entry is put aside for the second loop of dispatch
Deferred(e) == e.external

Top == stack[Len(stack)]

\* Some code that can call the bus is running in every state: the
\* application when no dispatch is in progress, and otherwise the body of the
\* listener that the innermost dispatch invoked.  Listener bodies are taken to
\* return normally.  Only the number of calls explored is limited.
CallerRuns == nBusCalls < MaxBusCalls

RECURSIVE Advance(_, _)
\* EventBus.dispatch run from the point fr.pc up to its next invocation of a
\* listener (pc "call" in the first loop, "extcall" in the second) or to its
\* return (pc "ret"); gives the frame and the listener table at that point
Advance(fr, ls) ==
  IF fr.pc = "loop"
  THEN LET list == IterList(fr, ls)
       IN IF fr.i < Len(list)
          THEN LET e == list[fr.i + 1]
                   ls1 == IF e.once THEN _off(ls, fr.eventName, e.listener)
                          ELSE ls
               IN IF Deferred(e)
                  THEN Advance([fr EXCEPT !.i = @ + 1,
                                 !.externalListeners = Append(@, e)], ls1)
                  ELSE [fr |-> [fr EXCEPT !.i = @ + 1, !.pc = "call",
                                  !.invoked = Append(@, e.id)],
                        ls |-> ls1]
          ELSE Advance([fr EXCEPT !.pc = "ext"], ls)
  ELSE IF fr.j < Len(fr.externalListeners)
       THEN [fr |-> [fr EXCEPT !.j = @ + 1, !.pc = "extcall",
                       !.invoked = Append(@, fr.externalListeners[fr.j + 1].id)],
             ls |-> ls]
       ELSE [fr |-> [fr EXCEPT !.pc = "ret"], ls |-> ls]

\* the state after dispatch has run to r, below the frames rest
Resume(rest, r) ==
  /\ listeners' = r.ls
  /\ IF r.fr.pc = "ret"
     THEN /\ stack' = rest
          /\ lastDone' = [eventName |-> r.fr.eventName, copy |-> r.fr.copy,
                          invoked |-> r.fr.invoked,
                          after |-> IterListLive(r.fr, r.ls)]
          /\ UNCHANGED calls
     ELSE /\ stack' = Append(rest, r.fr)
          /\ calls' = [calls EXCEPT ![r.fr.invoked[Len(r.fr.invoked)]] = @ + 1]
          /\ UNCHANGED lastDone

Subscribe(eventName, listener, opts) ==
  /\ CallerRuns
  /\ LET id == Len(subs) + 1
     IN /\ listeners' = _on(listeners, eventName, listener, opts, id)
        /\ subs' = Append(subs, [eventName |-> eventName, listener |-> listener,
                                 external |-> (opts.external = TRUE),
                                 once |-> (opts.once = TRUE)])
        /\ calls' = Append(calls, 0)
  /\ nBusCalls' = nBusCalls + 1
  /\ UNCHANGED <<stack, lastDone>>

\* EventBus.on
on(eventName, listener, once) ==
  Subscribe(eventName, listener, [external |-> TRUE, once |-> once])

\* a direct call of EventBus._on, as the viewer components make
InternalOn(eventName, listener, external, once) ==
  Subscribe(eventName, listener, [external |-> external, once |-> once])

\* EventBus.off and direct calls of EventBus._off
off(eventName, listener) ==
  /\ CallerRuns
  /\ listeners' = _off(listeners, eventName, listener)
  /\ nBusCalls' = nBusCalls + 1
  /\ UNCHANGED <<stack, subs, calls, lastDone>>

\* EventBus.dispatch, called by the application or by a listener body; runs
\* to its first invocation of a listener or to its return
dispatch(eventName) ==
  /\ CallerRuns
  /\ nBusCalls' = nBusCalls + 1
  /\ IF eventName \notin DOMAIN listeners \/ Len(listeners[eventName]) = 0
     THEN UNCHANGED <<listeners, stack, calls, lastDone>>
     ELSE Resume(stack, Advance(
            [eventName |-> eventName, copy |-> listeners[eventName],
             i |-> 0, pc |-> "loop", externalListeners |-> <<>>, j |-> 0,
             invoked |-> <<>>], listeners))
  /\ UNCHANGED subs

\* the body of the listener that the innermost dispatch invoked returns, and
\* that dispatch runs on to its next invocation or to its return
listenerReturn ==
  /\ stack # <<>>
  /\ Resume(SubSeq(stack, 1, Len(stack) - 1),
            Advance([Top EXCEPT !.pc = IF @ = "call" THEN "loop" ELSE "ext"],
                    listeners))
  /\ UNCHANGED <<subs, nBusCalls>>

NoDispatch == [eventName |-> "", copy |-> <<>>, invoked |-> <<>>, after |-> <<>>]

BusInit ==
  /\ listeners = <<>>
  /\ stack = <<>>
  /\ subs = <<>>
  /\ calls = <<>>
  /\ nBusCalls = 0
  /\ lastDone = NoDispatch

BusNext ==
  \/ \E n \in EventNames, f \in Fns, o \in BOOLEAN :
        on(n, f, o) /\ UNCHANGED notBus
  \/ \E n \in EventNames, f \in Fns, x \in BOOLEAN, o \in BOOLEAN :
        InternalOn(n, f, x, o) /\ UNCHANGED notBus
  \/ \E n \in EventNames, f \in Fns : off(n, f) /\ UNCHANGED notBus
  \/ \E n \in EventNames : dispatch(n) /\ UNCHANGED notBus
  \/ listenerReturn /\ UNCHANGED notBus

(***************************************************************************)
(* Values                                                                  *)
(***************************************************************************)
Undefined == [t |-> "undefined"]
Null == [t |-> "null"]
False == [t |-> "false"]

\* !v
Falsy(v) == v.t \in {"undefined", "null", "false"}

\* Object.is(a, b), as React compares effect dependencies: objects by identity
SameValue(a, b) ==
  IF a.t = "obj" /\ b.t = "obj" THEN a.ident = b.ident ELSE a.t = b.t

\* the file prop: null, a string (strings carry no identity), or an object
\* with an identity id and fields
NullFile == [kind |-> "null"]
UrlText == [dataURI |-> FALSE, text |-> "https://host/sample.pdf"]
ObjA == [kind |-> "object", id |-> 1, fields |-> [url |-> UrlText]]
ObjB == [kind |-> "object", id |-> 2, fields |-> [url |-> UrlText]]
BadFile == [kind |-> "object", id |-> 3, fields |-> [httpHeaders |-> "h"]]
DocFiles == {NullFile, ObjA, ObjB, BadFile}
\* the files of the first render: ObjB differs from ObjA by its identity only
MountFiles == {NullFile, ObjA, BadFile}

\* the options prop: undefined, or an object with an identity
NoOptions == [kind |-> "undefined"]
DocOptions == {NoOptions, [kind |-> "object", id |-> 1]}
\* the options of the first render: options matter by their identity only
MountOptions == {NoOptions}

\* new Array(n)
Empty == [t |-> "empty"]
NewArray(n) == [k \in 1..n |-> Empty]

\* arr.push(ref) in place of arr[pageIndex] = ref (mutant)
ArrayPush(arr, pageIndex, ref) == Append(arr, ref)

\* arr[pageIndex] = ref, on a JavaScript array (pageIndex counts from 0)
ArraySet(arr, pageIndex, ref) ==
  IF pageIndex + 1 <= Len(arr) THEN [arr EXCEPT ![pageIndex + 1] = ref]
  ELSE arr \o NewArray(pageIndex - Len(arr)) \o <<ref>>

\* arr.filter(Boolean).length
FilterBooleanLength(arr) == Cardinality({k \in 1..Len(arr) : arr[k] # Empty})

\* the argument of setCanLoadAnnotations in registerAnnotationEditorLayer
CanLoadAnnotationsValue(manager, pgs, layers) ==
  /\ ~Falsy(manager)
  /\ Len(pgs) > 0
  /\ Len(pgs) = FilterBooleanLength(layers)

(***************************************************************************)
(* useResolver                                                             *)
(***************************************************************************)
\* the state RESET gives; from records the promise a state came from
ResetState == [value |-> Undefined, error |-> Undefined, from |-> 0]

\* the reducer of useResolver
Reducer(state, action) ==
  CASE action.type = "RESOLVE" ->
         [value |-> action.value, error |-> Undefined, from |-> action.from]
    [] action.type = "REJECT" ->
         [value |-> False, error |-> action.error, from |-> action.from]
    [] action.type = "RESET" -> ResetState
    [] OTHER -> state

(***************************************************************************)
(* Source resolution                                                       *)
(***************************************************************************)
\* isParameterObject lets every object through (mutant)
isParameterObjectAnyObject(f) == f.kind = "object"

\* isParameterObject
isParameterObject(f) ==
  /\ f.kind \in {"object"}
  /\ DOMAIN f.fields \cap {"data", "range", "url"} # {}

\* dequal(a, b) on file props: structural equality, identities left out
dequal(a, b) ==
  /\ a.kind = b.kind
  /\ a.kind = "string" => a.str = b.str
  /\ a.kind = "object" => a.fields = b.fields
  /\ a.kind \in {"range", "arraybuffer", "blob"} => a.id = b.id

\* isDataURI
isDataURI(str) == str.dataURI

\* dataURItoByteString
dataURItoByteString(str) == [bytes |-> <<"decoded", str.text>>]

\* {...f, ...g} with f taking precedence: the fields of f, and those of g
\* that f has not
Spread(f, g) ==
  [x \in DOMAIN f \cup DOMAIN g |-> IF x \in DOMAIN f THEN f[x] ELSE g[x]]

\* the record g without the field name
Without(g, name) == [x \in DOMAIN g \ {name} |-> g[x]]

\* !file holds for null only (mutant)
FalsyFileNullOnly(f) == f.kind = "null"

\* !file: no file, null, or the empty string
FalsyFile(f) ==
  \/ f.kind \in {"null", "undefined"}
  \/ f.kind = "string" /\ f.str.text = ""

\* findDocumentSource for the file f; k numbers the call, and an object the
\* call creates gets the identity <<"new", k>>
findDocumentSource(f, k) ==
  LET Fresh(desc) == [ok |-> TRUE,
                      value |-> [t |-> "obj", ident |-> <<"new", k>>, desc |-> desc]]
      Invalid(msg) == [ok |-> FALSE, error |-> [message |-> msg]]
  IN CASE FalsyFile(f) -> [ok |-> TRUE, value |-> Null]
       [] f.kind = "string" ->
            IF isDataURI(f.str) THEN Fresh([data |-> dataURItoByteString(f.str)])
            ELSE Fresh([url |-> f.str])
       [] f.kind = "range" -> Fresh([range |-> f.id])
       [] f.kind = "arraybuffer" -> Fresh([data |-> f.id])
       [] f.kind = "blob" -> Fresh([data |-> <<"read", f.id>>])
       [] f.kind = "object" ->
            IF ~isParameterObject(f)
            THEN Invalid("Invalid parameter object: need either .data, .range or .url")
            ELSE IF "url" \in DOMAIN f.fields /\ isDataURI(f.fields.url)
            THEN Fresh(Spread(Without(f.fields, "url"),
                              [data |-> dataURItoByteString(f.fields.url)]))
            ELSE [ok |-> TRUE,
                  value |-> [t |-> "obj", ident |-> <<"file", f.id>>,
                             desc |-> f.fields]]
       [] OTHER ->
            Invalid("Invalid parameter in file, need either Uint8Array, string or a parameter object")

\* the file-memoisation effect warns
FileMemoWarningNever(f, prev) == FALSE

\* the file-memoisation effect enters its branch for f and its warning fires
FileMemoWarning(f, prev) ==
  /\ ~FalsyFile(f) /\ f # prev /\ isParameterObject(f)
  /\ prev.kind # "undefined" /\ dequal(f, prev)

\* cleanup of the source-resolution effect, nothing cancelled (mutant)
SourceEffectCleanupNone(cs, k) == cs

\* cleanup of the source-resolution effect: cancelRunningTask(cancellable)
SourceEffectCleanup(cs, k) == [cs EXCEPT ![k].cancelled = TRUE]

\* cleanup of the loadDocument effect, nothing destroyed (mutant)
LoadDocumentCleanupNone(ts, k) == ts

\* cleanup of the loadDocument effect: loadingTask.destroy(); the effect
\* returned no cleanup when k = 0
LoadDocumentCleanup(ts, k) ==
  IF k = 0 THEN ts ELSE [ts EXCEPT ![k].destroyed = TRUE]

\* the catch callback of loadDocument never returns early (mutant)
CatchReturnsEarlyNever(task) == FALSE

\* the catch callback of loadDocument returns without dispatching
CatchReturnsEarly(task) == task.destroyed

\* the loadDocument effect runs on every render (mutant)
LoadDocumentDepsNone(optionsChanged, sourceChanged) == TRUE

\* the loadDocument effect runs again: one of its dependencies options and
\* source is another value than in the render before
LoadDocumentDeps(optionsChanged, sourceChanged) ==
  optionsChanged \/ sourceChanged

\* loadDocument goes on whatever the source is (mutant)
LoadDocumentGuardNone(src) == TRUE

\* loadDocument goes on to pdfjs.getDocument: it returns at once if (!source)
LoadDocumentGuard(src) == ~Falsy(src)

\* onLoadSuccess keeps the surfaces of the registry it replaces (mutant)
NewRegistryKeeps(old, numPages) ==
  [k \in 1..numPages |-> IF k <= Len(old) THEN old[k] ELSE Empty]

\* onLoadSuccess: pages.current = new Array(pdf.numPages), and the same for
\* annotationEditorLayers.current; old is the array that is replaced
NewRegistry(old, numPages) == NewArray(numPages)

\* the event whose listener createAnnotationEditorUiManager registers, and
\* the listener: a closure that calls updateParams of the manager made for
\* the handle of identity ident
ParamsEvent == "switchannotationeditorparams"
UpdateParamsOf(ident) == [updateParams |-> ident]

\* createAnnotationEditorUiManager: eventBus.current._on(ParamsEvent, closure)
\* with no options, so that the entry is neither external nor once
RegisterParamsListener(handle) ==
  LET id == Len(subs) + 1
      opts == [external |-> FALSE, once |-> FALSE]
  IN /\ listeners' = _on(listeners, ParamsEvent, UpdateParamsOf(handle.ident),
                         opts, id)
     /\ subs' = Append(subs, [eventName |-> ParamsEvent,
                              listener |-> UpdateParamsOf(handle.ident),
                              external |-> FALSE, once |-> FALSE])
     /\ calls' = Append(calls, 0)
     /\ nBusCalls' = nBusCalls + 1

\* the manager cannot be made, and the resolver is told so (mutant)
createAnnotationEditorUiManagerRejects(m, handle) ==
  Reducer(m, [type |-> "REJECT", from |-> handle.ident,
              error |-> [task |-> handle.ident]])

\* createAnnotationEditorUiManager: the manager state after the dispatch of
\* RESOLVE with the manager it made for the handle of the render
createAnnotationEditorUiManager(m, handle) ==
  Reducer(m, [type |-> "RESOLVE", from |-> handle.ident,
              value |-> [t |-> "obj", ident |-> handle.ident]])

\* the loadAnnotations effect goes on to annotationEditorUiManager
\* .loadAnnotations: canLoadAnnotations && annotationsList, with the list given
BootstrapGuard(ready) == ready

(***************************************************************************)
(* Document                                                                *)
(*                                                                         *)
(* A render and the flush of the effects it schedules are one step: React  *)
(* flushes the pending effects of a render before it handles any later     *)
(* update.  Dispatches made by effects and by promise callbacks change the *)
(* reducer state at once and are read by the next render.                  *)
(***************************************************************************)
NoFile == [kind |-> "undefined"]

\* a render with the props f and o, and the effects it flushes; first is TRUE
\* for the mount, where every effect runs and there is nothing to clean up
Commit(f, o, first) ==
  LET s == sourceState
      p == pdfState
      m == annotationEditorUiManagerState
      fileChanged == first \/ f # file
      optionsChanged == first \/ o # options
      sourceChanged == first \/ ~SameValue(s.value, source.value)
      pdfChanged == first \/ ~SameValue(p.value, pdf.value)
      loadChanged == LoadDocumentDeps(optionsChanged, sourceChanged)
      \* cleanups of the effects that run again
      cs1 == IF fileChanged /\ ~first
             THEN SourceEffectCleanup(cancellables, curCancellable)
             ELSE cancellables
      ts1 == IF loadChanged /\ ~first
             THEN LoadDocumentCleanup(loadingTasks, curLoadingTask)
             ELSE loadingTasks
      \* the file-memoisation effect
      memo == fileChanged /\ ~FalsyFile(f) /\ f # prevFile /\ isParameterObject(f)
      warns == fileChanged /\ FileMemoWarning(f, prevFile)
      \* the source-resolution effect
      gen == Len(cancellables) + 1
      cancellable == [file |-> f, cancelled |-> FALSE, status |-> "pending",
                      equalToPrev |-> /\ ~first /\ isParameterObject(f)
                                      /\ file.kind = "object" /\ f # file
                                      /\ dequal(f, file)]
      \* the source callback effect
      srcOk == sourceChanged /\ s.value.t \in {"null", "obj"}
      srcErr == sourceChanged /\ s.value.t = "false" /\ s.error # Undefined
      \* the loadDocument effect
      loads == loadChanged /\ LoadDocumentGuard(s.value)
      loadingTask == [source |-> s.value, options |-> o, destroyed |-> FALSE,
                      status |-> "pending", late |-> FALSE, numPages |-> 0]
      \* the pdf callback effect
      pdfOk == pdfChanged /\ p.value.t = "obj"
      pdfErr == pdfChanged /\ p.value.t = "false" /\ p.error # Undefined
      \* the loadAnnotations / loadInitialLinkNodesList effects; the host
      \* passes the same annotationsList and initialLinkNodesList throughout
      boots == /\ first \/ canLoadAnnotationsState # canLoadAnnotations
               /\ BootstrapGuard(canLoadAnnotationsState)
               /\ m.value.t = "obj"
  IN /\ file' = f
     /\ options' = o
     /\ source' = s
     /\ pdf' = p
     /\ annotationEditorUiManager' = m
     /\ canLoadAnnotations' = canLoadAnnotationsState
     /\ nPageChildren' = IF ~FalsyFile(f) /\ p.value.t = "obj" THEN Len(pages) ELSE 0
     /\ prevFile' = IF memo THEN f ELSE prevFile
     \* resetSource
     /\ sourceState' = IF fileChanged THEN Reducer(s, [type |-> "RESET"]) ELSE s
     /\ cancellables' = IF fileChanged THEN Append(cs1, cancellable) ELSE cs1
     /\ curCancellable' = IF fileChanged THEN gen ELSE curCancellable
     \* resetDocument
     /\ pdfState' = IF sourceChanged THEN Reducer(p, [type |-> "RESET"]) ELSE p
     \* loadDocument
     /\ loadingTasks' = IF loads THEN Append(ts1, loadingTask) ELSE ts1
     /\ curLoadingTask' = IF loads THEN Len(ts1) + 1
                          ELSE IF loadChanged THEN 0 ELSE curLoadingTask
     \* onLoadSuccess
     /\ pages' = IF pdfOk THEN NewRegistry(pages, p.value.numPages) ELSE pages
     /\ annotationEditorLayers' =
          IF pdfOk THEN NewRegistry(annotationEditorLayers, p.value.numPages)
          ELSE annotationEditorLayers
     \* createAnnotationEditorUiManager
     /\ annotationEditorUiManagerState' =
          IF pdfOk THEN createAnnotationEditorUiManager(m, p.value) ELSE m
     /\ IF pdfOk THEN RegisterParamsListener(p.value)
        ELSE UNCHANGED <<listeners, subs, calls, nBusCalls>>
     /\ UNCHANGED <<stack, lastDone>>
     /\ UNCHANGED canLoadAnnotationsState
     /\ hist' = [hist EXCEPT
          !.warned = IF warns THEN @ \cup {gen} ELSE @,
          !.sourceSuccess = IF srcOk THEN @ \cup {s.from} ELSE @,
          !.sourceErrors = IF srcErr THEN @ \cup {s.from} ELSE @,
          !.loadSuccess = IF pdfOk THEN @ \cup {p.value.ident} ELSE @,
          !.loadErrors = IF pdfErr THEN @ \cup {p.error.task} ELSE @,
          !.registryFor = IF pdfOk THEN p.value.ident ELSE @,
          !.bootstrapped = IF boots THEN @ \cup {m.value.ident} ELSE @]

\* some state was set since the last render read it
Dirty ==
  \/ sourceState # source
  \/ pdfState # pdf
  \/ annotationEditorUiManagerState # annotationEditorUiManager
  \/ canLoadAnnotationsState # canLoadAnnotations

\* the first render of <Document file={f} options={o}>
Mount(f, o) ==
  /\ mounted = "no"
  /\ Commit(f, o, TRUE)
  /\ mounted' = "yes"
  /\ UNCHANGED nChanges

\* the parent renders the component with another file
ChangeFile(f) ==
  /\ mounted = "yes"
  /\ nChanges < MaxChanges
  /\ f # file
  /\ Commit(f, options, FALSE)
  /\ nChanges' = nChanges + 1
  /\ UNCHANGED mounted

\* the parent renders the component with other options
ChangeOptions(o) ==
  /\ mounted = "yes"
  /\ nChanges < MaxChanges
  /\ o # options
  /\ Commit(file, o, FALSE)
  /\ nChanges' = nChanges + 1
  /\ UNCHANGED mounted

\* the render that a state update schedules
Rerender ==
  /\ mounted = "yes"
  /\ Dirty
  /\ Commit(file, options, FALSE)
  /\ UNCHANGED <<mounted, nChanges>>

\* the component unmounts: the cleanup of every effect runs
Unmount ==
  /\ mounted = "yes"
  /\ mounted' = "gone"
  /\ cancellables' = SourceEffectCleanup(cancellables, curCancellable)
  /\ loadingTasks' = LoadDocumentCleanup(loadingTasks, curLoadingTask)
  /\ UNCHANGED <<propVars, stateVars, renderVars, curCancellable,
                 curLoadingTask, registryVars, nChanges, hist>>

\* the promise of findDocumentSource() of cancellable k settles; a cancelled
\* cancellable passes nothing on, otherwise the then / catch callback of the
\* source-resolution effect dispatches (an unmounted component ignores it)
SourceSettle(k) ==
  /\ cancellables[k].status = "pending"
  /\ cancellables' = [cancellables EXCEPT ![k].status =
                        IF cancellables[k].cancelled THEN "dropped" ELSE "passed"]
  /\ LET c == cancellables[k]
         r == findDocumentSource(c.file, k)
         action == IF r.ok
                   THEN [type |-> "RESOLVE", value |-> r.value, from |-> k]
                   ELSE [type |-> "REJECT", error |-> r.error, from |-> k]
     IN IF c.cancelled
        THEN UNCHANGED <<sourceState, hist>>
        ELSE /\ sourceState' = IF mounted = "yes" THEN Reducer(sourceState, action)
                               ELSE sourceState
             /\ hist' = [hist EXCEPT !.staleSource =
                           IF k # curCancellable \/ mounted # "yes"
                           THEN @ \cup {k} ELSE @]
  /\ UNCHANGED <<mounted, propVars, pdfState, annotationEditorUiManagerState,
                 canLoadAnnotationsState, renderVars, loadingTasks,
                 curCancellable, curLoadingTask, registryVars, nChanges>>

\* loadingTask.promise of loading task k settles, fulfilled with a document
\* of n pages (ok) or rejected, and the then / catch callback of loadDocument
\* runs; the engine may settle the promise of a destroyed task either way
LoadSettle(k, ok, n) ==
  /\ loadingTasks[k].status = "pending"
  /\ LET task == loadingTasks[k]
         action == IF ok
                   THEN [type |-> "RESOLVE", from |-> k,
                         value |-> [t |-> "obj", ident |-> k, numPages |-> n]]
                   ELSE [type |-> "REJECT", from |-> k, error |-> [task |-> k]]
         dispatches == ok \/ ~CatchReturnsEarly(task)
     IN /\ loadingTasks' = [loadingTasks EXCEPT
               ![k].status = IF ok THEN "resolved" ELSE "rejected",
               ![k].late = task.destroyed,
               ![k].numPages = IF ok THEN n ELSE 0]
        /\ pdfState' = IF dispatches /\ mounted = "yes"
                       THEN Reducer(pdfState, action) ELSE pdfState
        /\ hist' = [hist EXCEPT !.lateDispatch =
                      IF dispatches /\ task.destroyed THEN @ \cup {k} ELSE @]
  /\ UNCHANGED <<mounted, propVars, sourceState, annotationEditorUiManagerState,
                 canLoadAnnotationsState, renderVars, cancellables,
                 curCancellable, curLoadingTask, registryVars, nChanges>>

\* a <Page> child that the last render returned has loaded its page
PageChild(pageIndex) ==
  /\ mounted = "yes"
  /\ pageIndex < nPageChildren
  /\ pdf.value.t = "obj"
  /\ pageIndex < pdf.value.numPages

\* registerPage, called by the <Page> child of index pageIndex
registerPage(pageIndex) ==
  /\ PageChild(pageIndex)
  /\ pages' = ArraySet(pages, pageIndex, [doc |-> pdf.value.ident])
  /\ UNCHANGED <<mounted, propVars, stateVars, renderVars, taskVars,
                 annotationEditorLayers, nChanges, hist>>

\* registerAnnotationEditorLayer, called by the effect of the
\* <AnnotationEditorLayer> of page pageIndex, which needs the manager
registerAnnotationEditorLayer(pageIndex) ==
  /\ PageChild(pageIndex)
  /\ annotationEditorUiManager.value.t = "obj"
  /\ LET layers == ArraySet(annotationEditorLayers, pageIndex,
                            [doc |-> pdf.value.ident])
     IN /\ annotationEditorLayers' = layers
        /\ canLoadAnnotationsState' =
             CanLoadAnnotationsValue(annotationEditorUiManager.value, pages, layers)
  /\ UNCHANGED <<mounted, propVars, sourceState, pdfState,
                 annotationEditorUiManagerState, renderVars, taskVars, pages,
                 nChanges, hist>>

DocInit ==
  /\ mounted = "no"
  /\ file = NoFile
  /\ options = NoOptions
  /\ prevFile = NoFile
  /\ sourceState = ResetState
  /\ pdfState = ResetState
  /\ annotationEditorUiManagerState = ResetState
  /\ canLoadAnnotationsState = FALSE
  /\ source = ResetState
  /\ pdf = ResetState
  /\ annotationEditorUiManager = ResetState
  /\ canLoadAnnotations = FALSE
  /\ cancellables = <<>>
  /\ loadingTasks = <<>>
  /\ curCancellable = 0
  /\ curLoadingTask = 0
  /\ pages = <<>>
  /\ annotationEditorLayers = <<>>
  /\ nPageChildren = 0
  /\ nChanges = 0
  /\ hist = [warned |-> {}, sourceSuccess |-> {}, sourceErrors |-> {},
             loadSuccess |-> {}, loadErrors |-> {}, lateDispatch |-> {},
             staleSource |-> {}, registryFor |-> 0, bootstrapped |-> {}]

DocNext ==
  \/ \E f \in MountFiles, o \in MountOptions :
        Mount(f, o) /\ UNCHANGED notRender
  \/ \E f \in DocFiles : ChangeFile(f) /\ UNCHANGED notRender
  \/ \E o \in DocOptions : ChangeOptions(o) /\ UNCHANGED notRender
  \/ Rerender /\ UNCHANGED notRender
  \/ Unmount /\ UNCHANGED notDoc
  \/ \E k \in 1..Len(cancellables) : SourceSettle(k) /\ UNCHANGED notDoc
  \/ \E k \in 1..Len(loadingTasks), ok \in BOOLEAN, n \in 1..MaxPages :
        LoadSettle(k, ok, n) /\ UNCHANGED notDoc
  \/ \E i \in 0..(MaxPages - 1) : registerPage(i) /\ UNCHANGED notDoc
  \/ \E i \in 0..(MaxPages - 1) :
        registerAnnotationEditorLayer(i) /\ UNCHANGED notDoc

(***************************************************************************)
(* Specifications                                                          *)
(***************************************************************************)
(***************************************************************************)
(* Units                                                                   *)
(***************************************************************************)
\* the registries and the readiness after onLoadSuccess of the first document
\* of n pages
FreshRegistries(n) ==
  [pages |-> NewArray(n), layers |-> NewArray(n), ready |-> FALSE,
   numPages |-> n]

\* a resolved editing manager
SomeManager == [t |-> "obj", ident |-> 1]

\* registerPage (r.kind = "page") or registerAnnotationEditorLayer, with the
\* manager resolved, on the registries and readiness st
RegisterStep(st, r) ==
  IF r.kind = "page"
  THEN [st EXCEPT !.pages = ArraySet(@, r.pageIndex, r.ref)]
  ELSE LET layers == ArraySet(st.layers, r.pageIndex, r.ref)
       IN [st EXCEPT !.layers = layers,
                     !.ready = CanLoadAnnotationsValue(SomeManager, st.pages, layers)]

\* the registrations of seq made in their order
RECURSIVE RegisterAll(_, _)
RegisterAll(st, seq) ==
  IF seq = <<>> THEN st
  ELSE RegisterAll(RegisterStep(st, Head(seq)), Tail(seq))

\* the surfaces a page or an editor layer registers
Surfaces == {[el |-> "a"], [el |-> "b"]}

\* a <Page> or <AnnotationEditorLayer> of the document registers a surface
UnitRegister(kind, pageIndex, ref) ==
  /\ unit = "registry"
  /\ Len(regs) < MaxRegs
  /\ pageIndex < Len(reg.pages)
  /\ LET r == [kind |-> kind, pageIndex |-> pageIndex, ref |-> ref]
     IN /\ regs' = Append(regs, r)
        /\ reg' = RegisterStep(reg, r)
  /\ UNCHANGED <<unit, srcIn, srcOut, onItemClick, viewer, click>>

\* registerPage or registerAnnotationEditorLayer is called through the
\* context with an index that need not be one of a page of the document
UnitRegisterAny(kind, pageIndex, ref) ==
  /\ unit = "anyIndex"
  /\ Len(regs) < MaxRegs
  /\ LET r == [kind |-> kind, pageIndex |-> pageIndex, ref |-> ref]
     IN /\ regs' = Append(regs, r)
        /\ reg' = RegisterStep(reg, r)
  /\ UNCHANGED <<unit, srcIn, srcOut, onItemClick, viewer, click>>

\* the files findDocumentSource is exercised with: nothing, null, strings,
\* a range transport, a byte buffer, a blob, and objects with every
\* combination of the fields url, data, range and httpHeaders
DataText == [dataURI |-> TRUE, text |-> "data:application/pdf;base64,JVBERg=="]
EmptyText == [dataURI |-> FALSE, text |-> ""]
NoFields == [x \in {} |-> x]
FieldRecords ==
  {Spread(Spread(u, d), Spread(r, h)) :
     u \in {NoFields, [url |-> UrlText], [url |-> DataText]},
     d \in {NoFields, [data |-> [bytes |-> <<"own">>]]},
     r \in {NoFields, [range |-> "transport"]},
     h \in {NoFields, [httpHeaders |-> "h"]}}
SourceFiles ==
  {NoFile, NullFile}
    \cup {[kind |-> "string", str |-> t] : t \in {EmptyText, UrlText, DataText}}
    \cup {[kind |-> k, id |-> 1] : k \in {"range", "arraybuffer", "blob", "number"}}
    \cup {[kind |-> "object", id |-> 1, fields |-> g] : g \in FieldRecords}

\* findDocumentSource is called with the file f
UnitFindDocumentSource(f) ==
  /\ unit = "source"
  /\ srcIn = NoFile
  /\ srcIn' = f
  /\ srcOut' = findDocumentSource(f, 1)
  /\ UNCHANGED <<unit, reg, regs, onItemClick, viewer, click>>

\* arr[i] of a JavaScript array; a hole and an index outside read undefined
ArrayGet(arr, i) == IF i + 1 \in 1..Len(arr) THEN arr[i + 1] ELSE Empty

\* Viewer.scrollPageIntoView(args) on the Viewer v, with the page registry pgs
ScrollPageIntoViewResult(v, pgs, args) ==
  LET pageIndex == IF args.hasPageIndex THEN args.pageIndex
                   ELSE args.pageNumber - 1
      page == ArrayGet(pgs, pageIndex)
  IN IF v.onItemClick
     THEN [kind |-> "onItemClick",
           arg |-> [dest |-> args.dest, pageIndex |-> pageIndex,
                    pageNumber |-> args.pageNumber]]
     ELSE IF page # Empty
     THEN [kind |-> "scrollIntoView", page |-> page]
     ELSE [kind |-> "warning"]

\* the arguments the link service passes
ScrollArgs(n) ==
  {[dest |-> "d", pageNumber |-> pn, hasPageIndex |-> h, pageIndex |-> pi] :
     pn \in 1..(n + 1), h \in BOOLEAN, pi \in 0..n}

\* the host renders the Document with or without an onItemClick prop; the
\* Viewer made by the first render stays in the ref
SetOnItemClick(b) ==
  /\ unit = "viewer"
  /\ b # onItemClick
  /\ onItemClick' = b
  /\ UNCHANGED <<unit, reg, regs, srcIn, srcOut, viewer, click>>

\* an internal link is followed: viewer.current.scrollPageIntoView(args)
scrollPageIntoView(args) ==
  /\ unit = "viewer"
  /\ click' = Spread(ScrollPageIntoViewResult(viewer, reg.pages, args),
                     [args |-> args, prop |-> onItemClick])
  /\ UNCHANGED <<unit, reg, regs, srcIn, srcOut, onItemClick, viewer>>

NoReg == [pages |-> <<>>, layers |-> <<>>, ready |-> FALSE, numPages |-> 0]
NoClick == [kind |-> "none"]

\* no unit is exercised
UnitIdle ==
  /\ unit = "none"
  /\ reg = NoReg
  /\ regs = <<>>
  /\ srcIn = NoFile
  /\ srcOut = [ok |-> FALSE, error |-> [message |-> "not called"]]
  /\ onItemClick = FALSE
  /\ viewer = [onItemClick |-> FALSE]
  /\ click = NoClick

\* one of the units, ready to be exercised
UnitInit ==
  /\ BusInit
  /\ DocInit
  /\ unit \in {"registry", "anyIndex", "source", "viewer"}
  /\ regs = <<>>
  /\ srcIn = NoFile
  /\ srcOut = [ok |-> FALSE, error |-> [message |-> "not called"]]
  /\ click = NoClick
  /\ IF unit \in {"registry", "anyIndex"}
     THEN reg \in {FreshRegistries(n) : n \in 1..MaxRegPages}
     ELSE IF unit = "viewer"
     THEN reg \in UNION {{[FreshRegistries(n) EXCEPT !.pages = ps] :
                              ps \in [1..n -> {Empty, [el |-> "a"]}]} :
                            n \in 1..MaxRegPages}
     ELSE reg = NoReg
  /\ onItemClick \in (IF unit = "viewer" THEN BOOLEAN ELSE {FALSE})
  /\ viewer = [onItemClick |-> onItemClick]
  /\ isSaveInProgressState = FALSE
  /\ installed = FALSE
  /\ saveOps = <<>>
  /\ downloadFileName = Undefined
  /\ offCall = [eventName |-> "", listener |-> "", before |-> <<>>, after |-> <<>>]

UnitNext ==
  \/ \E k \in {"page", "layer"}, i \in 0..MaxRegPages, ref \in Surfaces :
        UnitRegisterAny(k, i, ref) /\ UNCHANGED <<busVars, docVars, saveVars, offVars>>
  \/ \E k \in {"page", "layer"}, i \in 0..(MaxRegPages - 1), ref \in Surfaces :
        UnitRegister(k, i, ref) /\ UNCHANGED <<busVars, docVars, saveVars, offVars>>
  \/ \E f \in SourceFiles :
        UnitFindDocumentSource(f) /\ UNCHANGED <<busVars, docVars, saveVars, offVars>>
  \/ \E b \in BOOLEAN :
        SetOnItemClick(b) /\ UNCHANGED <<busVars, docVars, saveVars, offVars>>
  \/ \E args \in ScrollArgs(Len(reg.pages)) :
        scrollPageIntoView(args) /\ UNCHANGED <<busVars, docVars, saveVars, offVars>>

\* no download command is there
SaveIdle ==
  /\ isSaveInProgressState = FALSE
  /\ installed = FALSE
  /\ saveOps = <<>>
  /\ downloadFileName = Undefined

(***************************************************************************)
(* Download commands                                                       *)
(*                                                                         *)
(* enableDownload installs downloadWithAnnotations for a loaded document.  *)
(* The command closes over isSaveInProgress as the render that installed   *)
(* it read it; setIsSaveInProgress schedules a render, after which the     *)
(* effect installs a command with the new value.  Each await of a command  *)
(* settles in a step of its own.                                           *)
(***************************************************************************)
\* const url = downloadFileName || 'annotated.pdf'; const filename = url
FileNameOf(prop) == IF Falsy(prop) THEN "annotated.pdf" ELSE prop.text

\* a call of the download manager made by saveWithAnnotations itself (by =
\* "save") or by download(), with the filename it is given
ManagerCall(fn, by) ==
  [fn |-> fn, by |-> by, filename |-> FileNameOf(downloadFileName)]

\* the catch of saveWithAnnotations gives up without a download (mutant)
SaveCatchGivesUp(op) ==
  [op EXCEPT !.failed = TRUE, !.pc = "done", !.outcome = "fulfilled"]

\* the catch of saveWithAnnotations: console.error, then await download(),
\* which begins with pdf.getData()
SaveCatch(op) ==
  [op EXCEPT !.failed = TRUE, !.fallback = TRUE, !.pc = "getData"]

\* the await that the command op is at settles, fulfilled (ok) or rejected,
\* and the command runs on to its next await or to its end
SaveAdvance(op, ok) ==
  CASE op.pc = "saveDocument" ->
         IF ok THEN [op EXCEPT !.pc = "saveDownload",
                               !.calls = Append(@, ManagerCall("download", "save"))]
         ELSE SaveCatch(op)
    [] op.pc = "saveDownload" ->
         IF ok THEN [op EXCEPT !.pc = "done", !.outcome = "fulfilled"]
         ELSE SaveCatch(op)
    [] op.pc = "getData" ->
         IF ok THEN [op EXCEPT !.pc = "download",
                               !.calls = Append(@, ManagerCall("download", "download"))]
         ELSE [op EXCEPT !.pc = "downloadUrl",
                         !.calls = Append(@, ManagerCall("downloadUrl", "download"))]
    [] op.pc = "download" ->
         IF ok THEN [op EXCEPT !.pc = "done", !.outcome = "fulfilled"]
         ELSE [op EXCEPT !.pc = "downloadUrl",
                         !.calls = Append(@, ManagerCall("downloadUrl", "download"))]
    [] op.pc = "downloadUrl" ->
         [op EXCEPT !.pc = "done",
                    !.outcome = IF ok THEN "fulfilled" ELSE "rejected"]
    [] OTHER -> op

NewCommand(kind, pc) ==
  [kind |-> kind, pc |-> pc, calls |-> <<>>, failed |-> FALSE,
   fallback |-> FALSE, outcome |-> "pending"]

\* the host calls eventsRef.current.downloadWithAnnotations(); edits is
\* pdf.annotationStorage.size > 0
downloadWithAnnotations(edits) ==
  /\ Len(saveOps) < MaxSaves
  /\ IF ~edits
     THEN /\ saveOps' = Append(saveOps, NewCommand("download", "getData"))
          /\ UNCHANGED isSaveInProgressState
     ELSE IF installed
     THEN /\ saveOps' = Append(saveOps, [NewCommand("ignored", "done")
                                           EXCEPT !.outcome = "fulfilled"])
          /\ UNCHANGED isSaveInProgressState
     ELSE /\ saveOps' = Append(saveOps, NewCommand("save", "saveDocument"))
          /\ isSaveInProgressState' = TRUE
  /\ UNCHANGED <<installed, downloadFileName>>

\* the flag is cleared at the end of the try block, so only when the command
\* ends without an exception (mutant)
SaveFinallyInTry(op, flag) ==
  IF op.kind = "save" /\ op.pc = "done" /\ op.outcome = "fulfilled" THEN FALSE
  ELSE flag

\* the finally of saveWithAnnotations: the in-progress flag after the
\* command op has taken a step, when it was flag before; a save that has
\* ended, returning or throwing, has called setIsSaveInProgress(false)
SaveFinally(op, flag) ==
  IF op.kind = "save" /\ op.pc = "done" THEN FALSE ELSE flag

\* an await of the command k settles; a saveWithAnnotations that ends runs
\* its finally: setIsSaveInProgress(false)
SaveSettle(k, ok) ==
  /\ saveOps[k].pc # "done"
  /\ LET op == SaveAdvance(saveOps[k], ok)
     IN /\ saveOps' = [saveOps EXCEPT ![k] = op]
        /\ isSaveInProgressState' = SaveFinally(op, isSaveInProgressState)
  /\ UNCHANGED <<installed, downloadFileName>>

\* the render that setIsSaveInProgress scheduled: the enableDownload effect
\* runs again and installs a command that closes over the new value
SaveRender ==
  /\ installed # isSaveInProgressState
  /\ installed' = isSaveInProgressState
  /\ UNCHANGED <<isSaveInProgressState, saveOps, downloadFileName>>

\* a loaded document with its download command installed
SaveInit ==
  /\ BusInit
  /\ DocInit
  /\ UnitIdle
  /\ isSaveInProgressState = FALSE
  /\ installed = FALSE
  /\ saveOps = <<>>
  /\ downloadFileName \in {Undefined, [t |-> "string", text |-> "report.pdf"]}
  /\ offCall = [eventName |-> "", listener |-> "", before |-> <<>>, after |-> <<>>]

SaveNext ==
  \/ \E edits \in BOOLEAN :
        downloadWithAnnotations(edits) /\ UNCHANGED <<busVars, docVars, unitVars, offVars>>
  \/ \E k \in 1..Len(saveOps), ok \in BOOLEAN :
        SaveSettle(k, ok) /\ UNCHANGED <<busVars, docVars, unitVars, offVars>>
  \/ SaveRender /\ UNCHANGED <<busVars, docVars, unitVars, offVars>>

(***************************************************************************)
(* Unsubscription                                                          *)
(*                                                                         *)
(* A bus with listeners under two event names; off and _off are called     *)
(* with these names and functions and with a name and a function that were *)
(* never subscribed.  No dispatch is in progress.                          *)
(***************************************************************************)
OffNames == {"a", "b"}
OffFns == {"f", "g"}
UnknownName == "c"
UnknownFn == "h"

NoOff == [eventName |-> "", listener |-> "", before |-> <<>>, after |-> <<>>]

\* EventBus._on, and EventBus.on with external = TRUE
OffSubscribe(eventName, listener, external, once) ==
  /\ nBusCalls < MaxOffCalls
  /\ InternalOn(eventName, listener, external, once)
  /\ UNCHANGED offCall

\* EventBus.off, which passes its first two arguments on to _off, or _off
OffUnsubscribe(eventName, listener) ==
  /\ nBusCalls < MaxOffCalls
  /\ off(eventName, listener)
  /\ offCall' = [eventName |-> eventName, listener |-> listener,
                 before |-> listeners, after |-> listeners']

OffNext ==
  \/ \E n \in OffNames, f \in OffFns, x \in BOOLEAN, o \in BOOLEAN :
        OffSubscribe(n, f, x, o) /\ UNCHANGED <<docVars, unitVars, saveVars>>
  \/ \E n \in OffNames \cup {UnknownName}, f \in OffFns \cup {UnknownFn} :
        OffUnsubscribe(n, f) /\ UNCHANGED <<docVars, unitVars, saveVars>>

\* a new EventBus and a <Document> that is not mounted yet
Init == BusInit /\ DocInit /\ UnitIdle /\ SaveIdle /\ offCall = NoOff

\* the unsubscriptions of a bus
OffSpec == Init /\ [][OffNext]_vars

(***************************************************************************)
(* The Document and its bus                                                *)
(*                                                                         *)
(* The Document with one file of one page, whose options change, and the   *)
(* dispatches of the event of createAnnotationEditorUiManager on its bus.  *)
(* The body of a listener may dispatch the event again.                    *)
(***************************************************************************)
ParamsNext ==
  \/ Mount(ObjA, NoOptions) /\ UNCHANGED notRender
  \/ \E o \in DocOptions : ChangeOptions(o) /\ UNCHANGED notRender
  \/ Rerender /\ UNCHANGED notRender
  \/ \E k \in 1..Len(cancellables) : SourceSettle(k) /\ UNCHANGED notDoc
  \/ \E k \in 1..Len(loadingTasks), ok \in BOOLEAN :
        LoadSettle(k, ok, 1) /\ UNCHANGED notDoc
  \/ dispatch(ParamsEvent) /\ UNCHANGED notBus
  \/ listenerReturn /\ UNCHANGED notBus

\* the Document and the dispatches on its bus
ParamsSpec == Init /\ [][ParamsNext]_vars

\* the EventBus alone
BusSpec == Init /\ [][BusNext]_vars

\* the Document component alone
Spec == Init /\ [][DocNext]_vars

\* the registries, findDocumentSource and the Viewer, each by itself
UnitSpec == UnitInit /\ [][UnitNext]_vars

\* the download commands of a loaded document
SaveSpec == SaveInit /\ [][SaveNext]_vars

\* the download commands where every call of the engine and of the download
\* manager that a command awaits settles, and React makes the render that a
\* state update schedules
SaveLiveSpec ==
  /\ SaveInit
  /\ [][SaveNext]_vars
  /\ WF_vars(\E k \in 1..Len(saveOps), ok \in BOOLEAN :
               SaveSettle(k, ok) /\ UNCHANGED <<busVars, docVars, unitVars, offVars>>)
  /\ WF_vars(SaveRender /\ UNCHANGED <<busVars, docVars, unitVars, offVars>>)

(***************************************************************************)
(* EventBus: properties                                                    *)
(***************************************************************************)
Ids(list) == {list[k].id : k \in 1..Len(list)}
Range(seq) == {seq[k] : k \in 1..Len(seq)}

\* inv, a sequence of registration ids in the order of their invocation, has
\* no external listener before a non-external one and follows subscription
\* order (the order of the ids) within each of the two groups
InOrder(inv) ==
  \A p, q \in 1..Len(inv) :
    p < q => /\ subs[inv[p]].external => subs[inv[q]].external
             /\ subs[inv[p]].external = subs[inv[q]].external => inv[p] < inv[q]

\* C1: in every dispatch, in progress or returned, the listeners invoked so
\* far were invoked non-external first, each group in subscription order, and
\* once an external listener has been invoked every non-external listener
\* registered when the dispatch began has been invoked.
C1_DispatchOrder ==
  /\ \A k \in 1..Len(stack) :
        /\ InOrder(stack[k].invoked)
        /\ (\E id \in Range(stack[k].invoked) : subs[id].external)
              => \A id \in Ids(stack[k].copy) :
                   ~subs[id].external => id \in Range(stack[k].invoked)
  /\ InOrder(lastDone.invoked)

\* L1 internal, L2 external, L3 internal, subscribed in that order, were
\* invoked L1, L3, L2 by a dispatch that returned
C1_Witness ==
  /\ Len(subs) >= 3
  /\ ~subs[1].external /\ subs[2].external /\ ~subs[3].external
  /\ lastDone.invoked = <<1, 3, 2>>

\* C2: a registration made with once: true is invoked at most once.
C2_OnceAtMostOnce ==
  \A id \in 1..Len(subs) : subs[id].once => calls[id] <= 1

\* C3: a dispatch invokes only listeners that were registered under the name
\* when it began, each at most once, and when it returns it has invoked every
\* one of them exactly once, whatever was subscribed or unsubscribed meanwhile.
C3_SnapshotDispatch ==
  /\ \A k \in 1..Len(stack) :
        /\ Range(stack[k].invoked) \subseteq Ids(stack[k].copy)
        /\ Cardinality(Range(stack[k].invoked)) = Len(stack[k].invoked)
  /\ Range(lastDone.invoked) = Ids(lastDone.copy)
  /\ Len(lastDone.invoked) = Len(lastDone.copy)

\* a dispatch returned after it invoked a listener that had been unsubscribed
\* by then, without invoking the listener that was subscribed meanwhile (no
\* once registration is involved)
C3_Witness ==
  /\ \A id \in 1..Len(subs) : ~subs[id].once
  /\ \E id \in Range(lastDone.invoked) : id \notin Ids(lastDone.after)
  /\ \E id \in Ids(lastDone.after) :
        id \notin Ids(lastDone.copy) /\ id \notin Range(lastDone.invoked)

(***************************************************************************)
(* Document: properties                                                    *)
(***************************************************************************)
\* C4: no result of a source normalisation is dispatched once the file it was
\* started for has been replaced (or the component unmounted), and the source
\* state is Absent or the outcome of the normalisation of the current file.
C4_SourceStaleSuppressed ==
  /\ hist.staleSource = {}
  /\ mounted = "yes" => sourceState.from \in {0, curCancellable}

\* the normalisation of a replaced file settled and was dropped, and the
\* source state holds the outcome of the normalisation of the current file
C4_Witness ==
  /\ mounted = "yes"
  /\ sourceState.from = curCancellable
  /\ \E k \in 1..Len(cancellables) :
       k < curCancellable /\ cancellables[k].status = "dropped"

\* C5: no RESOLVE and no REJECT is dispatched to the document resolver on
\* behalf of a loading task that has been destroyed.
C5_NoStaleCompletion == hist.lateDispatch = {}

\* C6: a loading task that is not destroyed is the one the loadDocument effect
\* made for the source and options of the last render.
C6_SupersededTasksDestroyed ==
  \A k \in 1..Len(loadingTasks) :
    ~loadingTasks[k].destroyed =>
      /\ mounted = "yes"
      /\ k = curLoadingTask
      /\ SameValue(loadingTasks[k].source, source.value)
      /\ loadingTasks[k].options = options

\* a load that had completed successfully was superseded and its loading task
\* destroyed, and the load that superseded it is there
C6_Witness ==
  /\ mounted = "yes"
  /\ curLoadingTask # 0
  /\ \E k \in 1..Len(loadingTasks) :
       /\ k # curLoadingTask
       /\ loadingTasks[k].destroyed
       /\ loadingTasks[k].status = "resolved"
       /\ ~loadingTasks[k].late

\* C7: a load that rejected after its loading task was destroyed is neither
\* the Rejected state of the document resolver nor reported by onLoadError.
C7_CancellationIsNotFailure ==
  \A k \in 1..Len(loadingTasks) :
    (loadingTasks[k].status = "rejected" /\ loadingTasks[k].late) =>
      /\ k \notin hist.loadErrors
      /\ ~(pdfState.value = False /\ pdfState.from = k)
      /\ ~(pdf.value = False /\ pdf.from = k)

\* the promise of a destroyed loading task rejected
C7_Witness ==
  \E k \in 1..Len(loadingTasks) :
    loadingTasks[k].status = "rejected" /\ loadingTasks[k].late

\* C8: while the document resolver is Resolved with a handle, the loading
\* task that produced the handle has not been destroyed.  A handle that its
\* task delivered after the destruction is the case of C5 and is left out
\* here: what remains is a handle resolved first and destroyed afterwards.
C8_NoUseAfterDestroy ==
  (/\ mounted = "yes"
   /\ pdfState.value.t = "obj"
   /\ ~loadingTasks[pdfState.value.ident].late)
    => ~loadingTasks[pdfState.value.ident].destroyed

\* C9 as stated: onSourceSuccess is never called for a file that replaced a
\* deep-equal parameter object.
C9_NoSourceEventForEqualFile ==
  \A k \in hist.sourceSuccess : ~cancellables[k].equalToPrev

\* C9 as amended: a parameter object that replaces a deep-equal one gets the
\* advisory and is a fresh source all the same: once the source resolved from
\* it has been rendered, onSourceSuccess has been called for it.
C9_EqualFileIsFreshSource ==
  \A k \in 1..Len(cancellables) :
    cancellables[k].equalToPrev =>
      /\ k \in hist.warned
      /\ (source.from = k /\ source.value.t = "obj") => k \in hist.sourceSuccess

\* a deep-equal replacement got the advisory and a source-resolved event
C9_Witness ==
  \E k \in 1..Len(cancellables) :
    /\ cancellables[k].equalToPrev
    /\ k \in hist.warned
    /\ k \in hist.sourceSuccess

\* the registries were allocated for the rendered handle, and the manager is
\* resolved
Loaded ==
  /\ mounted = "yes"
  /\ pdfState.value.t = "obj"
  /\ pdf = pdfState
  /\ hist.registryFor = pdf.value.ident
  /\ annotationEditorUiManagerState.value.t = "obj"

\* some index 0..N-1 of the editor-surface registry is absent
SomeLayerAbsent ==
  \E i \in 1..pdf.value.numPages :
    i > Len(annotationEditorLayers) \/ annotationEditorLayers[i] = Empty

\* C10: for a loaded document, readiness is false while an index of the
\* editor-surface registry is absent, and true once none is.
C10_BarrierReadiness ==
  Loaded => (canLoadAnnotationsState <=> ~SomeLayerAbsent)

\* C11: readiness is never true while the document resolver is Rejected; the
\* Rejected state is taken once a render has read it, when no page of an
\* earlier document is left to register anything.
C11_NoReadinessOnFailedDocument ==
  (mounted = "yes" /\ pdfState.value = False /\ pdf = pdfState)
    => ~canLoadAnnotationsState

\* C12: readiness falls from true to false only in a step that swaps the
\* document (one that allocates the registries for another handle), never in
\* a registration.
C12_ReadinessMonotonic ==
  [][(canLoadAnnotationsState /\ ~canLoadAnnotationsState')
       => hist'.registryFor # hist.registryFor]_vars

\* every index of the editor-surface registry holds a surface of the rendered
\* document
AllLayersOfDocument ==
  /\ Len(annotationEditorLayers) = pdf.value.numPages
  /\ \A i \in 1..Len(annotationEditorLayers) :
       annotationEditorLayers[i] = [doc |-> pdf.value.ident]

\* C13: once every editor surface of a loaded document is registered and the
\* render that follows has flushed its effects, the bootstrap has run on the
\* manager of that document.
C13_BootstrapPerDocument ==
  (Loaded /\ AllLayersOfDocument /\ ~Dirty
     /\ annotationEditorUiManager.value.ident = pdf.value.ident)
    => pdf.value.ident \in hist.bootstrapped

\* the normalisation of the file of the last render has settled, and a render
\* has read its outcome
SourceSettledAndRendered ==
  /\ mounted = "yes"
  /\ curCancellable # 0
  /\ cancellables[curCancellable].status = "passed"
  /\ source = sourceState

\* C17: a malformed file makes the source state Rejected and is reported by
\* onSourceError; its normalisation is not made again; and a valid file that
\* replaces it resolves the source and is reported by onSourceSuccess.
C17_MalformedFileFailsOnlyItsResolution ==
  /\ (SourceSettledAndRendered /\ file = BadFile) =>
       /\ sourceState.value = False
       /\ sourceState.from = curCancellable
       /\ curCancellable \in hist.sourceErrors
  /\ Len(cancellables) <= nChanges + 1
  /\ \A k \in 1..Len(cancellables) : k # curCancellable => cancellables[k].cancelled
  /\ (SourceSettledAndRendered /\ file \in {ObjA, ObjB}) =>
       /\ sourceState.value.t = "obj"
       /\ sourceState.from = curCancellable
       /\ curCancellable \in hist.sourceSuccess

\* a malformed file was reported by onSourceError, and the valid file that
\* replaced it has been resolved and reported by onSourceSuccess
C17_Witness ==
  /\ SourceSettledAndRendered
  /\ curCancellable = 2
  /\ cancellables[1].file = BadFile
  /\ 1 \in hist.sourceErrors
  /\ file = ObjA
  /\ sourceState.value.t = "obj"
  /\ 2 \in hist.sourceSuccess

(***************************************************************************)
(* Registries, findDocumentSource, Viewer: properties                      *)
(***************************************************************************)
\* seq with its entries i and i + 1 in the other order
SwapAt(seq, i) == [seq EXCEPT ![i] = seq[i + 1], ![i + 1] = seq[i]]

\* seq with its entry i made twice
DupAt(seq, i) == SubSeq(seq, 1, i) \o SubSeq(seq, i, Len(seq))

\* the outcome of the registrations of seq on the document of reg
Outcome(seq) == RegisterAll(FreshRegistries(Len(reg.pages)), seq)

\* two registrations put different surfaces at one index of one registry
Conflict(a, b) ==
  a.kind = b.kind /\ a.pageIndex = b.pageIndex /\ a.ref # b.ref

\* the surface that the last registration of kind at pageIndex gave, or a hole
LastRegistered(kind, pageIndex) ==
  LET ks == {k \in 1..Len(regs) :
               regs[k].kind = kind /\ regs[k].pageIndex = pageIndex}
  IN IF ks = {} THEN Empty
     ELSE regs[CHOOSE k \in ks : \A j \in ks : j <= k].ref

SourceCalled == unit = "source" /\ srcOut # [ok |-> FALSE, error |-> [message |-> "not called"]]

\* C15: no file, null and the empty string resolve to null; a data-URI string
\* to a descriptor with the decoded payload as data and nothing else; any
\* other string s to {url: s}.
C15_AbsentAndStringSources ==
  SourceCalled =>
    /\ (srcIn.kind \in {"undefined", "null"} \/ srcIn = [kind |-> "string", str |-> EmptyText])
         => srcOut = [ok |-> TRUE, value |-> Null]
    /\ (srcIn.kind = "string" /\ srcIn.str # EmptyText) =>
         /\ srcOut.ok
         /\ srcOut.value.t = "obj"
         /\ srcOut.value.desc =
              IF srcIn.str.dataURI THEN [data |-> dataURItoByteString(srcIn.str)]
              ELSE [url |-> srcIn.str]

\* a data-URI string was resolved
C15_Witness ==
  /\ SourceCalled
  /\ srcIn = [kind |-> "string", str |-> DataText]
  /\ srcOut.ok
  /\ DOMAIN srcOut.value.desc = {"data"}

\* C16: the source resolved from a parameter object whose url is a data URI
\* has no url, has the bytes decoded from the URI as data, and has every
\* field of the object other than url and data unchanged.
C16_DataURIObjectRewritten ==
  (/\ SourceCalled
   /\ srcIn.kind = "object"
   /\ "url" \in DOMAIN srcIn.fields
   /\ srcIn.fields.url.dataURI) =>
    /\ srcOut.ok
    /\ "url" \notin DOMAIN srcOut.value.desc
    /\ "data" \in DOMAIN srcOut.value.desc
    /\ srcOut.value.desc.data = dataURItoByteString(srcIn.fields.url)
    /\ \A x \in DOMAIN srcIn.fields \ {"url", "data"} :
         x \in DOMAIN srcOut.value.desc /\ srcOut.value.desc[x] = srcIn.fields[x]

\* C20: a followed link calls the onItemClick that the host gives, with
\* {dest, pageIndex, pageNumber} and pageIndex defaulting to pageNumber - 1;
\* without one it scrolls the surface the page registry holds at pageIndex;
\* without that it only warns.
C20_ScrollPageIntoView ==
  (unit = "viewer" /\ click.kind # "none") =>
    LET pageIndex == IF click.args.hasPageIndex THEN click.args.pageIndex
                     ELSE click.args.pageNumber - 1
    IN IF click.prop
       THEN /\ click.kind = "onItemClick"
            /\ click.arg = [dest |-> click.args.dest, pageIndex |-> pageIndex,
                            pageNumber |-> click.args.pageNumber]
       ELSE IF ArrayGet(reg.pages, pageIndex) # Empty
       THEN click.kind = "scrollIntoView"
              /\ click.page = ArrayGet(reg.pages, pageIndex)
       ELSE click.kind = "warning"

\* C25: both registries keep the length they were allocated with, the page
\* count of the document, under every registration, whatever its index.
C25_RegistryLengthFixed ==
  unit \in {"registry", "anyIndex"} =>
    /\ Len(reg.pages) = reg.numPages
    /\ Len(reg.layers) = reg.numPages

(***************************************************************************)
(* Download commands: properties                                           *)
(***************************************************************************)
\* C18: a save-with-edits whose pdf.saveDocument or download threw has gone
\* on to the plain download, whose calls of the download manager are given
\* the filename of the save; no source or load error callback is made.  (The
\* command itself returns nothing to the host on every path, so the outcome
\* of the promise inside it is not the host's to see.)
C18_SaveFailureFallsBack ==
  /\ \A k \in 1..Len(saveOps) :
       (saveOps[k].kind = "save" /\ saveOps[k].failed) =>
         /\ saveOps[k].fallback
         /\ saveOps[k].pc \in {"download", "downloadUrl", "done"} =>
              \E c \in 1..Len(saveOps[k].calls) : saveOps[k].calls[c].by = "download"
         /\ \A c \in 1..Len(saveOps[k].calls) :
              saveOps[k].calls[c].filename = FileNameOf(downloadFileName)
  /\ hist.loadErrors = {} /\ hist.sourceErrors = {}

\* a save-with-edits to report.pdf threw in pdf.saveDocument, and the plain
\* download that followed has downloaded report.pdf
C18_Witness ==
  \E k \in 1..Len(saveOps) :
    /\ saveOps[k].kind = "save"
    /\ saveOps[k].failed
    /\ saveOps[k].pc = "done"
    /\ saveOps[k].outcome = "fulfilled"
    /\ saveOps[k].calls = <<[fn |-> "download", by |-> "download",
                             filename |-> "report.pdf"]>>

\* C19: at most one pdf.saveDocument call is outstanding.
C19_SavesCoalesced ==
  Cardinality({k \in 1..Len(saveOps) : saveOps[k].pc = "saveDocument"}) <= 1

(***************************************************************************)
(* Document: loads, callbacks and the editing manager                      *)
(***************************************************************************)
\* the loading tasks that are pending and not destroyed
PendingUndestroyed ==
  {k \in 1..Len(loadingTasks) :
     loadingTasks[k].status = "pending" /\ ~loadingTasks[k].destroyed}

\* this step is a render that reads another source or other options than the
\* render before it (every render of the mount does), and reads a source
NewGeneration ==
  /\ mounted' = "yes"
  /\ \/ mounted = "no"
     \/ ~SameValue(source'.value, source.value)
     \/ options' # options
  /\ source'.value.t = "obj"

\* C21: at most one loading task is pending and not destroyed; and a step
\* makes a loading task exactly if it is a render with another source or
\* other options than the render before and with a source: then it makes
\* one, for that source and those options.
C21_OneLoadPerGeneration ==
  /\ [](Cardinality(PendingUndestroyed) <= 1)
  /\ [][IF NewGeneration
        THEN /\ Len(loadingTasks') = Len(loadingTasks) + 1
             /\ SameValue(loadingTasks'[Len(loadingTasks')].source, source'.value)
             /\ loadingTasks'[Len(loadingTasks')].options = options'
        ELSE Len(loadingTasks') = Len(loadingTasks)]_vars

\* the options changed while the first load was pending: its task is
\* destroyed and a second one, for the same source and the other options, is
\* the only one pending and not destroyed
C21_Witness ==
  /\ Len(loadingTasks) = 2
  /\ loadingTasks[1].destroyed /\ loadingTasks[1].status = "pending"
  /\ SameValue(loadingTasks[1].source, loadingTasks[2].source)
  /\ loadingTasks[1].options # loadingTasks[2].options
  /\ PendingUndestroyed = {2}

\* C22: once the component has unmounted, the source normalisation of the
\* last file is cancelled and every loading task is destroyed, and no step
\* dispatches to a resolver any more.
C22_UnmountCancelsAll ==
  /\ [](mounted = "gone" =>
          /\ curCancellable # 0 => cancellables[curCancellable].cancelled
          /\ \A k \in 1..Len(loadingTasks) : loadingTasks[k].destroyed)
  /\ [][mounted = "gone" =>
          /\ hist'.lateDispatch = hist.lateDispatch
          /\ hist'.staleSource = hist.staleSource]_vars

\* C26: in the render that reads another document handle, both registries
\* are made anew with the page count of the handle and every entry absent;
\* and while that handle is the rendered one, they have its page count and
\* hold no surface of another document.
C26_RegistriesReallocated ==
  /\ [][(mounted' = "yes" /\ pdf'.value.t = "obj"
           /\ ~SameValue(pdf'.value, pdf.value)) =>
          /\ pages' = NewArray(pdf'.value.numPages)
          /\ annotationEditorLayers' = NewArray(pdf'.value.numPages)]_vars
  /\ [](Loaded =>
          /\ Len(pages) = pdf.value.numPages
          /\ Len(annotationEditorLayers) = pdf.value.numPages
          /\ \A i \in 1..Len(pages) :
               pages[i] \in {Empty, [doc |-> pdf.value.ident]}
          /\ \A i \in 1..Len(annotationEditorLayers) :
               annotationEditorLayers[i] \in {Empty, [doc |-> pdf.value.ident]})

\* a second document is loaded; every editor surface of the first one had
\* been registered (readiness is still set), and no entry of either registry
\* is left
C26_Witness ==
  /\ Loaded
  /\ pdf.value.ident = 2
  /\ 1 \in hist.loadSuccess
  /\ canLoadAnnotationsState
  /\ pages = NewArray(pdf.value.numPages)
  /\ annotationEditorLayers = NewArray(pdf.value.numPages)

\* C27: every loading task was made for a resolved source, in a render that
\* read that source; a render that reads another source than the render
\* before resets the document state; and the outcome of a load that is
\* applied to the document state while its task is not destroyed is that of
\* a load of the rendered source.
C27_LoadOnlyWithSource ==
  /\ [](\A k \in 1..Len(loadingTasks) : loadingTasks[k].source.t = "obj")
  /\ [][Len(loadingTasks') # Len(loadingTasks) =>
          /\ source'.value.t = "obj"
          /\ sourceState.value.t = "obj"
          /\ SameValue(loadingTasks'[Len(loadingTasks')].source, source'.value)]_vars
  /\ [][(mounted = "yes" /\ mounted' = "yes"
           /\ ~SameValue(source'.value, source.value)) =>
          pdfState' = ResetState]_vars
  /\ [][(pdfState'.from # pdfState.from /\ pdfState'.from # 0
           /\ ~loadingTasks'[pdfState'.from].late) =>
          SameValue(loadingTasks[pdfState'.from].source, source.value)]_vars

\* a document was loaded from a valid file, and the malformed file that
\* replaced it is rendered Rejected: the document state is Absent and no
\* second loading task has been made
C27_Witness ==
  /\ mounted = "yes"
  /\ file = BadFile
  /\ source = sourceState
  /\ source.value = False
  /\ 1 \in hist.loadSuccess
  /\ pdfState = ResetState
  /\ pdf = pdfState
  /\ Len(loadingTasks) = 1

\* C28: once the outcome of a load whose task was not destroyed when it
\* settled is the rendered document state, onLoadSuccess has been called for
\* it and onLoadError has not, if it resolved, and the reverse if it rejected.
C28_OneOutcomeCallback ==
  \A k \in 1..Len(loadingTasks) :
    (/\ mounted = "yes"
     /\ loadingTasks[k].status # "pending"
     /\ ~loadingTasks[k].late
     /\ pdfState.from = k
     /\ pdf = pdfState) =>
      IF loadingTasks[k].status = "resolved"
      THEN k \in hist.loadSuccess /\ k \notin hist.loadErrors
      ELSE k \in hist.loadErrors /\ k \notin hist.loadSuccess

\* C29: the manager state is Absent until the first onLoadSuccess and from
\* then on holds the manager of the handle that onLoadSuccess ran for last;
\* no step takes a manager away.
C29_ManagerOnlyResolved ==
  /\ [](IF hist.registryFor = 0
        THEN annotationEditorUiManagerState = ResetState
        ELSE /\ annotationEditorUiManagerState.value =
                  [t |-> "obj", ident |-> hist.registryFor]
             /\ annotationEditorUiManagerState.error = Undefined)
  /\ [][annotationEditorUiManagerState.value.t = "obj" =>
          annotationEditorUiManagerState'.value.t = "obj"]_vars

\* the load that followed the first document failed and is rendered
\* Rejected; the manager of the first document is still the manager state
C29_Witness ==
  /\ mounted = "yes"
  /\ pdf = pdfState
  /\ pdfState.value = False
  /\ pdfState.from = 2
  /\ annotationEditorUiManagerState.value = [t |-> "obj", ident |-> 1]
  /\ annotationEditorUiManager = annotationEditorUiManagerState

(***************************************************************************)
(* EventBus: once listeners and unsubscription                             *)
(***************************************************************************)
\* C23: while the body of a listener registered with once: true runs, the
\* registration it was invoked for is not in the listener list of its name.
C23_OnceRemovedBeforeInvocation ==
  \A k \in 1..Len(stack) :
    LET id == stack[k].invoked[Len(stack[k].invoked)]
    IN subs[id].once => id \notin Ids(IterListLive(stack[k], listeners))

\* the positions of list whose function is listener
Matches(list, listener) == {i \in 1..Len(list) : list[i].listener = listener}

\* C24: a call of off or _off with a name and a function leaves the listener
\* table as it is when the name has no entry of the function; otherwise it
\* takes one entry out of the list of the name, the one of the function that
\* was subscribed first, whatever its flags, and leaves every other entry of
\* the list and the list of every other name as they were.
C24_OffRemovesEarliestMatch ==
  LET n == offCall.eventName
      b == offCall.before
      a == offCall.after
  IN offCall # NoOff =>
       IF n \notin DOMAIN b \/ Matches(b[n], offCall.listener) = {}
       THEN a = b
       ELSE LET ms == Matches(b[n], offCall.listener)
                i == CHOOSE m \in ms : \A j \in ms : b[n][m].id <= b[n][j].id
            IN /\ DOMAIN a = DOMAIN b
               /\ \A m \in DOMAIN b \ {n} : a[m] = b[m]
               /\ Len(a[n]) = Len(b[n]) - 1
               /\ \A j \in 1..Len(a[n]) :
                    a[n][j] = IF j < i THEN b[n][j] ELSE b[n][j + 1]

\* the function was subscribed twice under the name, with other flags the
\* second time, and once under the other name; the call took the first entry
\* out and left the second and the other name
C24_Witness ==
  /\ offCall # NoOff
  /\ offCall.eventName = "a"
  /\ DOMAIN offCall.before = {"a", "b"}
  /\ Len(offCall.before["a"]) = 2
  /\ \A j \in 1..2 : offCall.before["a"][j].listener = offCall.listener
  /\ offCall.before["a"][1].once # offCall.before["a"][2].once
  /\ offCall.after["a"] = <<offCall.before["a"][2]>>
  /\ offCall.after["b"] = offCall.before["b"]

(***************************************************************************)
(* The Document and its bus: properties                                    *)
(***************************************************************************)
\* the listeners of the event on the bus of the Document
ParamsListeners ==
  IF ParamsEvent \in DOMAIN listeners THEN listeners[ParamsEvent] ELSE <<>>

\* the managers whose updateParams the entries of list call
ManagersOf(list) == {list[k].listener.updateParams : k \in 1..Len(list)}

\* C30: the bus holds one listener of the event for each handle that
\* onLoadSuccess has run for, bound to the manager made for that handle, and
\* none is ever taken away; a dispatch of the event that has returned called
\* every listener that was there when it began, once.
C30_ParamsListenersAccumulate ==
  /\ Len(ParamsListeners) = Cardinality(hist.loadSuccess)
  /\ ManagersOf(ParamsListeners) = hist.loadSuccess
  /\ Ids(ParamsListeners) = 1..Len(subs)
  /\ Len(lastDone.invoked) = Len(lastDone.copy)
  /\ Range(lastDone.invoked) = Ids(lastDone.copy)

\* two loads succeeded, the second after the options changed; the manager
\* state holds the second manager, and a dispatch that began after that has
\* called updateParams of both managers
C30_Witness ==
  /\ hist.loadSuccess = {1, 2}
  /\ annotationEditorUiManagerState.value = [t |-> "obj", ident |-> 2]
  /\ Len(lastDone.copy) = 2
  /\ {subs[id].listener : id \in Range(lastDone.invoked)} =
       {UpdateParamsOf(1), UpdateParamsOf(2)}
  /\ \A id \in 1..Len(subs) : calls[id] >= 1

(***************************************************************************)
(* Download commands: termination                                          *)
(***************************************************************************)
\* C31: whenever the in-progress flag is set, it is cleared later, and
\* whenever the installed command is one that ignores a save request, one
\* that accepts it is installed later: every save that started ends, however
\* its awaits settle.
C31_SaveFlagCleared ==
  /\ isSaveInProgressState ~> ~isSaveInProgressState
  /\ installed ~> ~installed
  /\ \A k \in 1..MaxSaves :
       (Len(saveOps) >= k /\ saveOps[k].kind = "save")
         ~> (/\ Len(saveOps) >= k
             /\ saveOps[k].pc = "done"
             /\ ~isSaveInProgressState
             /\ ~installed)

\* a save threw, the plain download that followed threw as well, in
\* download and in downloadUrl, and the flag is cleared and a command that
\* accepts a save request is installed
C31_Witness ==
  /\ ~isSaveInProgressState
  /\ ~installed
  /\ \E k \in 1..Len(saveOps) :
       /\ saveOps[k].kind = "save"
       /\ saveOps[k].failed
       /\ saveOps[k].pc = "done"
       /\ saveOps[k].outcome = "rejected"

====
